---- MODULE Spec2Model ----
(***************************************************************************)
(* Model of the listing pipeline of ebaylister: main.py's                  *)
(* upload_and_analyze endpoint and the four helpers it calls               *)
(* (analyze_image_with_gemini, upload_image_to_ebay,                       *)
(* create_inventory_item, create_offer).                                   *)
(*                                                                         *)
(* Texts are modelled as sequences of tokens, Python dicts as TLA+         *)
(* functions over the keys that are present, Python's None as the string   *)
(* NoneVal (or the record NoDraft where a dict is expected), and money as  *)
(* integer cents.  The remote services are the environment: every          *)
(* response is chosen nondeterministically from a small set.               *)
(***************************************************************************)
EXTENDS Integers, Sequences, FiniteSets, TLC

\* ------------------------------------------------------------------ bounds
\* number of distinct SKU tokens uuid4 can produce in the model
NumSkus == 2
\* number of distinct fileId values the media endpoint can hand out
NumFileIds == 2

\* number of Generate presses followed in one Streamlit session
MaxPresses == 3

\* concurrent invocations of the endpoint; they interleave at stage
\* boundaries (separate worker processes share only the remote services)
Runs == {1, 2}

\* ------------------------------------------------------- program constants
EBAY_SANDBOX_URL == "https://api.sandbox.ebay.com/sell/inventory/v1"

POLICY_IDS_DEFAULT ==
    [fulfillment |-> "1234567890", payment |-> "9876543210", return |-> "5432109876"]

\* the prompt asks for a title of at most 80 characters
MaxTitleLen == 80
\* default of item_data.get(suggested_price, 25.00), in cents
DefaultPrice == 2500
DefaultCurrency == "USD"
\* the condition values the prompt offers
Conditions ==
    { <<"N","E","W","_","O","T","H","E","R">>,
      <<"U","S","E","D","_","E","X","C","E","L","L","E","N","T">>,
      <<"U","S","E","D","_","G","O","O","D">> }

NoneVal == "<None>"
NoDraft == [unset |-> TRUE]

\* ------------------------------------------------------------ text helpers
\* three backquotes, the Markdown code-fence marker
Fence == [t |-> "fence"]
JsonWord == [t |-> "json"]
Ws == [t |-> " "]
Prose == [t |-> "prose"]
Obj(d) == [t |-> "object", v |-> d]

\* does pat occur in s at position i
MatchAt(s, pat, i) ==
    /\ i + Len(pat) - 1 <= Len(s)
    /\ \A j \in 1..Len(pat) : s[i + j - 1] = pat[j]

\* str.replace(pat, empty): remove every non-overlapping occurrence, left to right
RECURSIVE RemoveFrom(_, _, _)
RemoveFrom(s, pat, i) ==
    IF i > Len(s) THEN <<>>
    ELSE IF MatchAt(s, pat, i) THEN RemoveFrom(s, pat, i + Len(pat))
    ELSE <<s[i]>> \o RemoveFrom(s, pat, i + 1)

Remove(s, pat) == RemoveFrom(s, pat, 1)

\* str.strip(): drop leading and trailing whitespace
RECURSIVE LStrip(_)
LStrip(s) == IF s # <<>> /\ Head(s) = Ws THEN LStrip(Tail(s)) ELSE s

RECURSIVE RStrip(_)
RStrip(s) ==
    IF s # <<>> /\ s[Len(s)] = Ws THEN RStrip(SubSeq(s, 1, Len(s) - 1)) ELSE s

Strip(s) == LStrip(RStrip(s))

\* response.text with the fence-json and fence markers replaced by nothing, stripped
CleanText(text) == Strip(Remove(Remove(text, <<Fence, JsonWord>>), <<Fence>>))

ExpectingValue == "Expecting value: line 1 column 1 (char 0)"
ExtraData == "Extra data"

\* json.loads: whitespace is skipped, one value is decoded, anything but
\* whitespace after it is an error
JsonLoads(s) ==
    LET body == LStrip(s) IN
    IF body = <<>> \/ Head(body).t # "object"
    THEN [ok |-> FALSE, error |-> ExpectingValue, value |-> NoDraft]
    ELSE IF LStrip(Tail(body)) # <<>>
    THEN [ok |-> FALSE, error |-> ExtraData, value |-> NoDraft]
    ELSE [ok |-> TRUE, error |-> "", value |-> Head(body).v]

\* dict without one key
Without(d, k) == [x \in DOMAIN d \ {k} |-> d[x]]
\* dict.get(k, default)
Get(d, k, default) == IF k \in DOMAIN d THEN d[k] ELSE default

\* str.replace of one character by nothing, on a string of characters
RECURSIVE RemoveChar(_, _)
RemoveChar(s, c) ==
    IF s = <<>> THEN <<>>
    ELSE IF Head(s) = c THEN RemoveChar(Tail(s), c)
    ELSE <<Head(s)>> \o RemoveChar(Tail(s), c)

\* ------------------------------------------------------------- environment
\* values os.environ.get can give a credential: unset, empty, or a key
KeyValues == {NoneVal, "", "secret"}
\* Python truthiness of an optional string
Truthy(s) == s # NoneVal /\ s # ""

\* the picture the client of invocation r photographs
Picture(r) == "jpeg-" \o ToString(r)

\* the uploads the client of invocation r can send
Files(r) ==
    { [content_type |-> "image/jpeg", filename |-> "listing_photo.jpg", bytes |-> Picture(r)],
      [content_type |-> "image/jpeg", filename |-> "broken.jpg", bytes |-> "not-a-picture"],
      [content_type |-> "text/plain", filename |-> "notes.txt", bytes |-> "plain-text"] }

\* PIL can decode these byte strings
Decodable == { Picture(r) : r \in Runs }

LongTitle == [i \in 1..(MaxTitleLen + 1) |-> "x"]

FullDraft ==
    [title |-> <<"J","a","c","k","e","t">>,
     description |-> "A vintage leather jacket.",
     brand |-> "Unbranded",
     condition |-> <<"U","S","E","D","_","E","X","C","E","L","L","E","N","T">>,
     category_keyword |-> "leather jacket",
     suggested_price |-> 4500,
     currency |-> "USD"]

\* what the vision model can answer: a text, or a transport failure
ModelTexts ==
    { <<Obj(FullDraft)>>,
      <<Fence, JsonWord, Ws, Obj(FullDraft), Ws, Fence>>,
      <<Prose, Ws, Obj(FullDraft)>>,
      <<Obj(FullDraft), Ws, Prose>>,
      <<>>,
      <<Obj(Without(FullDraft, "title"))>>,
      <<Obj(Without(FullDraft, "suggested_price"))>>,
      <<Obj(Without(FullDraft, "currency"))>>,
      <<Obj([FullDraft EXCEPT !.title = LongTitle])>>,
      <<Obj([FullDraft EXCEPT !.condition = <<"N","E","W","_","O","T","H","E","R">>])>>,
      <<Obj([FullDraft EXCEPT !.condition = <<"U","S","E","D","_","G","O","O","D">>])>>,
      <<Obj([FullDraft EXCEPT !.condition = <<"B","R","O","K","E","N">>])>> }

ModelOutcomes ==
    { [ok |-> TRUE, text |-> t, error |-> ""] : t \in ModelTexts }
    \cup { [ok |-> FALSE, text |-> <<>>, error |-> "503 The model is overloaded."] }

FileIds == { "f12" \o ToString(i) : i \in 1..NumFileIds }
\* what str(uuid.uuid4()) can give (shortened to twelve characters)
Uuids == { <<"a","b","1","2","c","d","3",ToString(i),"-","9","f","e">> : i \in 1..NumSkus }
OfferIds == { "5001234567" }

ErrorBody == <<Obj([errors |-> "rejected"])>>

\* responses of POST /file
UploadResponses ==
    { [status |-> 200, text |-> <<Obj([fileId |-> f])>>] : f \in FileIds \cup {""} }
    \cup { [status |-> 200, text |-> <<Obj([warnings |-> "none"])>>],
           [status |-> 200, text |-> <<>>],
           [status |-> 401, text |-> ErrorBody] }

\* responses of PUT /inventory_item/<sku>
InventoryResponses ==
    { [status |-> 204, text |-> <<>>],
      [status |-> 200, text |-> <<Obj([sku |-> "stored"])>>],
      [status |-> 400, text |-> ErrorBody] }

\* responses of POST /offer
OfferResponses ==
    { [status |-> 201, text |-> <<Obj([offerId |-> o])>>] : o \in OfferIds }
    \cup { [status |-> 201, text |-> <<Obj([warnings |-> "none"])>>],
           [status |-> 200, text |-> <<Obj([offerId |-> "5001234567"])>>],
           [status |-> 400, text |-> ErrorBody] }

\* ------------------------------------------------------- helper functions
\* outcome of a helper: a returned value, or a raised exception
Return(v, call) ==
    [exc |-> "none", value |-> v, msg |-> "", status |-> 0, call |-> call]
\* variant: a failed inventory-item PUT is followed by a DELETE of the
\* picture uploaded for it
RaiseAndCleanUp(kind, m, st, v, call) ==
    [exc |-> kind, value |-> v, msg |-> m, status |-> st,
     call |-> IF call # <<>> /\ call[1].api = "inventory_item"
              THEN call \o <<[api |-> "cleanup", method |-> "DELETE",
                              url |-> EBAY_SANDBOX_URL \o "/file/"
                                      \o call[1].payload.product.imageUrls[1],
                              payload |-> [none |-> TRUE],
                              status |-> 204, response |-> <<>>]>>
              ELSE call]

Raise(kind, m, st, v, call) ==
    [exc |-> kind, value |-> v, msg |-> m, status |-> st, call |-> call]

\* str.upper() on one character
Upper(c) ==
    CASE c = "a" -> "A" [] c = "b" -> "B" [] c = "c" -> "C"
      [] c = "d" -> "D" [] c = "e" -> "E" [] c = "f" -> "F"
      [] OTHER -> c

\* a string of characters as one string
RECURSIVE Join(_)
Join(cs) == IF cs = <<>> THEN "" ELSE Head(cs) \o Join(Tail(cs))

\* requests.Response.raise_for_status: raises for 4xx and 5xx
RaisesForStatus(status) == status >= 400 /\ status < 600
\* bool(response) is response.ok: no error status
ResponseBool(status) == ~RaisesForStatus(status)
\* str(HTTPError) as raise_for_status builds it (reason phrase left out)
HTTPErrorMsg(status, url) ==
    ToString(status)
    \o (IF status < 500 THEN " Client Error" ELSE " Server Error")
    \o " for url: " \o url
\* str(KeyError(k))
KeyErrorMsg(k) == "'" \o k \o "'"
\* str(HTTPException(status_code, detail)) as current Starlette prints it;
\* the three stage messages stay distinct, so no claim rests on this format
HTTPExceptionMsg(status, detail) == ToString(status) \o ": " \o detail

\* variant: the pre-flight test fires only when both credentials are missing
KeysMissingBoth(gemini_key, ebay_token) == ~Truthy(gemini_key) /\ ~Truthy(ebay_token)

\* line 359: a credential is unset or empty
KeysMissing(gemini_key, ebay_token) == ~Truthy(gemini_key) \/ ~Truthy(ebay_token)

\* variant: the test written as a comparison with None
PyNotIsNone(v) == v = NoneVal

\* the tests of lines 378, 383 and 388, Python's not applied to an optional string
PyNot(v) == ~Truthy(v)

\* variant: any 2xx status taken for success
ItemCreatedAny2xx(status) == status >= 200 /\ status < 300

\* line 118: the status create_inventory_item takes for success
ItemCreated(status) == status = 204

\* variant: a download URL built from the file reference
ImageUrlsAsLink(image_id) == <<EBAY_SANDBOX_URL \o "/file/" \o image_id>>

\* line 108: the imageUrls list of the inventory-item payload
ImageUrls(image_id) == <<image_id>>

\* variant: the separator is replaced by a blank
ConditionCodeBlank(condition) ==
    [i \in 1..Len(condition) |-> IF condition[i] = "_" THEN " " ELSE condition[i]]

\* line 110: the condition field of the inventory-item payload
ConditionCode(condition) == RemoveChar(condition, "_")

\* first key of keys that d lacks, or NoneVal
RECURSIVE FirstMissing(_, _)
FirstMissing(d, keys) ==
    IF keys = <<>> THEN NoneVal
    ELSE IF Head(keys) \notin DOMAIN d THEN Head(keys)
    ELSE FirstMissing(d, Tail(keys))

analyze_image_with_gemini(key, image, outcome) ==
    LET call == [api |-> "extract", method |-> "generate_content",
                 url |-> "gemini-1.5-flash", payload |-> [image |-> image],
                 status |-> IF outcome.ok THEN 200 ELSE 503,
                 response |-> outcome.text]
    IN  IF ~Truthy(key)
        THEN Raise("Exception", "Gemini API key is not configured.", 0, NoDraft, <<>>)
        ELSE IF ~outcome.ok
        THEN Raise("Exception", outcome.error, 0, NoDraft, <<call>>)
        ELSE LET parsed == JsonLoads(CleanText(outcome.text))
             IN  IF parsed.ok
                 THEN Return(parsed.value, <<call>>)
                 ELSE Raise("Exception", parsed.error, 0, NoDraft, <<call>>)

upload_image_to_ebay(token, image_bytes, image_name, resp) ==
    LET url == EBAY_SANDBOX_URL \o "/file"
        call == [api |-> "upload", method |-> "POST", url |-> url,
                 payload |-> [name |-> image_name, bytes |-> image_bytes,
                              content_type |-> "image/jpeg"],
                 status |-> resp.status, response |-> resp.text]
    IN  IF ~Truthy(token)
        THEN Raise("Exception", "eBay Token is not configured.", 0, NoneVal, <<>>)
        ELSE IF RaisesForStatus(resp.status)
        THEN Raise("HTTPError", HTTPErrorMsg(resp.status, url), resp.status,
                   NoneVal, <<call>>)
        ELSE LET parsed == JsonLoads(resp.text)
             IN  IF parsed.ok
                 THEN Return(Get(parsed.value, "fileId", NoneVal), <<call>>)
                 ELSE Raise("Exception", parsed.error, 0, NoneVal, <<call>>)

InventoryPayload(item_data, image_id) ==
    [product |->
        [title |-> item_data["title"],
         description |-> item_data["description"],
         aspects |-> [Brand |-> <<item_data["brand"]>>,
                      Condition |-> <<item_data["condition"]>>],
         imageUrls |-> ImageUrls(image_id)],
     condition |-> ConditionCode(item_data["condition"]),
     conditionDescription |->
        "AI-Generated Description: " \o Join(item_data["condition"]),
     group |-> "SINGLE"]

create_inventory_item(token, item_data, image_id, uuid4, resp) ==
    LET sku == "SKU-" \o Join([i \in 1..8 |-> Upper(uuid4[i])])
        url == EBAY_SANDBOX_URL \o "/inventory_item/" \o sku
        missing == FirstMissing(item_data,
                                <<"title", "description", "brand", "condition">>)
        call == [api |-> "inventory_item", method |-> "PUT", url |-> url,
                 payload |-> InventoryPayload(item_data, image_id),
                 status |-> resp.status, response |-> resp.text]
    IN  IF ~Truthy(token)
        THEN Raise("Exception", "eBay Token is not configured.", 0, NoneVal, <<>>)
        ELSE IF missing # NoneVal
        THEN Raise("Exception", KeyErrorMsg(missing), 0, NoneVal, <<>>)
        ELSE IF RaisesForStatus(resp.status)
        THEN Raise("HTTPError", HTTPErrorMsg(resp.status, url), resp.status,
                   NoneVal, <<call>>)
        ELSE IF ItemCreated(resp.status)
        THEN Return(sku, <<call>>)
        ELSE Return(NoneVal, <<call>>)

\* variant: the offer is created published
ListingStatusPublished == "PUBLISHED"

\* line 150: the listing status of every offer
ListingStatus == "DRAFT"

\* variant: no fallback price, the offer is free when the draft has no price
PriceOfNoFallback(item_data) == Get(item_data, "suggested_price", 0)

\* line 146: the price of the offer
PriceOf(item_data) == Get(item_data, "suggested_price", DefaultPrice)

\* line 147: the currency of the offer
CurrencyOf(item_data) == Get(item_data, "currency", DefaultCurrency)

\* variant: any 2xx status taken for a created offer
OfferCreatedAny2xx(status) == status >= 200 /\ status < 300

\* line 156: the status create_offer takes for success
OfferCreated(status) == status = 201

OfferPayload(policy_ids, sku, item_data) ==
    [sku |-> sku,
     marketplaceId |-> "EBAY_US",
     format |-> "FIXED_PRICE",
     quantity |-> 1,
     listingPolicies |->
        [fulfillmentPolicyId |-> policy_ids["fulfillment"],
         paymentPolicyId |-> policy_ids["payment"],
         returnPolicyId |-> policy_ids["return"]],
     pricingSummary |->
        [price |-> [value |-> PriceOf(item_data),
                    currency |-> CurrencyOf(item_data)]],
     listingStatus |-> ListingStatus]

create_offer(token, policy_ids, sku, item_data, resp) ==
    LET url == EBAY_SANDBOX_URL \o "/offer"
        call == [api |-> "offer", method |-> "POST", url |-> url,
                 payload |-> OfferPayload(policy_ids, sku, item_data),
                 status |-> resp.status, response |-> resp.text]
    IN  IF ~Truthy(token)
        THEN Raise("Exception", "eBay Token is not configured.", 0, NoneVal, <<>>)
        ELSE IF RaisesForStatus(resp.status)
        THEN Raise("HTTPError", HTTPErrorMsg(resp.status, url), resp.status,
                   NoneVal, <<call>>)
        ELSE IF OfferCreated(resp.status)
        THEN LET parsed == JsonLoads(resp.text)
             IN  IF parsed.ok
                 THEN Return(Get(parsed.value, "offerId", NoneVal), <<call>>)
                 ELSE Raise("Exception", parsed.error, 0, NoneVal, <<call>>)
        ELSE Return(NoneVal, <<call>>)

\* -------------------------------------------------------------------- state
VARIABLES
    GEMINI_KEY,     \* module global, os.environ.get("GEMINI_KEY")
    EBAY_TOKEN,     \* module global, os.environ.get("EBAY_TOKEN")
    POLICY_IDS,     \* module global dict
    pc,             \* per invocation: position in upload_and_analyze
    file,           \* per invocation: the UploadFile argument
    contents,       \* per invocation: local contents
    listing_data,   \* per invocation: local listing_data
    image_id,       \* per invocation: local image_id
    sku,            \* per invocation: local sku
    offer_id,       \* per invocation: local offer_id
    result,         \* per invocation: the response sent to the caller
    stage,          \* per invocation: the stage in which the run failed
    calls           \* per invocation: the remote calls issued so far

\* the Streamlit variant (app.py), one browser session
VARIABLES
    picture,        \* value of the camera_input widget
    session_state,  \* st.session_state: listing_data and image_id when stored
    panel,          \* the last script run showed the AI Draft and Image Ready panel
    notice,         \* the st.error or st.warning of the last script run
    presses,        \* Generate presses so far
    origin          \* the press that stored each session_state entry

app_vars == <<picture, session_state, panel, notice, presses, origin>>

vars == <<GEMINI_KEY, EBAY_TOKEN, POLICY_IDS, pc, file, contents, listing_data,
          image_id, sku, offer_id, result, stage, calls, app_vars>>

globals == <<GEMINI_KEY, EBAY_TOKEN, POLICY_IDS>>

NoFile == [content_type |-> NoneVal, filename |-> NoneVal, bytes |-> NoneVal]
NoResult == [pending |-> TRUE]
NoneBody == <<[t |-> "None"]>>

Init ==
    /\ GEMINI_KEY \in KeyValues
    /\ EBAY_TOKEN \in KeyValues
    /\ POLICY_IDS = POLICY_IDS_DEFAULT
    /\ pc = [r \in Runs |-> "start"]
    /\ file = [r \in Runs |-> NoFile]
    /\ contents = [r \in Runs |-> NoneVal]
    /\ listing_data = [r \in Runs |-> NoDraft]
    /\ image_id = [r \in Runs |-> NoneVal]
    /\ sku = [r \in Runs |-> NoneVal]
    /\ offer_id = [r \in Runs |-> NoneVal]
    /\ result = [r \in Runs |-> NoResult]
    /\ stage = [r \in Runs |-> NoneVal]
    /\ calls = [r \in Runs |-> <<>>]
    /\ picture = NoneVal
    /\ session_state = [listing_data |-> NoDraft, image_id |-> NoneVal]
    /\ panel = FALSE
    /\ notice = NoneVal
    /\ presses = 0
    /\ origin = [listing_data |-> 0, image_id |-> 0]

\* variant: the variable is a module global, one value for all invocations
SetShared(v, r, x) == [q \in DOMAIN v |-> x]

\* assignment to a local variable of invocation r
SetLocal(v, r, x) == [v EXCEPT ![r] = x]

\* raise HTTPException(status_code, detail) outside the try block
HTTPExceptionResult(status, detail) ==
    [status_code |-> status, detail |-> [text |-> detail]]

\* the two except clauses of upload_and_analyze
ExceptHandler(out) ==
    IF out.exc = "HTTPError"
    THEN [status_code |-> out.status,
          detail |-> [error |-> "API Request Failed: " \o out.msg,
                      response |-> IF ResponseBool(out.status)
                                   THEN out.call[1].response
                                   ELSE NoneBody]]
    ELSE HTTPExceptionResult(500, "An internal error occurred: " \o out.msg)

\* variant: the error is recorded and the failed stage is tried again
FailAndRetry(r, st, res) ==
    /\ pc' = pc
    /\ stage' = [stage EXCEPT ![r] = st]
    /\ result' = [result EXCEPT ![r] = res]

\* the invocation ends with an error response
Fail(r, st, res) ==
    /\ pc' = [pc EXCEPT ![r] = "failed"]
    /\ stage' = [stage EXCEPT ![r] = st]
    /\ result' = [result EXCEPT ![r] = res]

Goto(r, label) ==
    /\ pc' = [pc EXCEPT ![r] = label]
    /\ UNCHANGED <<stage, result>>

\* str.startswith("image/") on the content types of the model
IsImageType(ct) == ct \in {"image/jpeg", "image/png"}

\* lines 359-363: the checks before the try block
Preflight(r) ==
    /\ pc[r] = "start"
    /\ \E f \in Files(r) :
        /\ file' = [file EXCEPT ![r] = f]
        /\ IF KeysMissing(GEMINI_KEY, EBAY_TOKEN)
           THEN Fail(r, "Start", HTTPExceptionResult(500,
                    "API Keys are missing. Check Render environment variables."))
           ELSE IF ~IsImageType(f.content_type)
           THEN Fail(r, "Start", HTTPExceptionResult(400, "File must be an image."))
           ELSE Goto(r, "read")
    /\ UNCHANGED <<app_vars, globals, contents, listing_data, image_id, sku, offer_id, calls>>

\* lines 367-371: read the upload and open it as a picture
ReadImage(r) ==
    /\ pc[r] = "read"
    /\ contents' = SetLocal(contents, r, file[r].bytes)
    /\ IF file[r].bytes \in Decodable
       THEN Goto(r, "extracting")
       ELSE Fail(r, "Start", ExceptHandler(
                Raise("Exception", "cannot identify image file", 0, NoneVal, <<>>)))
    /\ UNCHANGED <<app_vars, globals, file, listing_data, image_id, sku, offer_id, calls>>

\* line 374
Extract(r) ==
    /\ pc[r] = "extracting"
    /\ \E outcome \in ModelOutcomes :
        LET out == analyze_image_with_gemini(GEMINI_KEY, contents[r], outcome)
        IN  /\ calls' = [calls EXCEPT ![r] = @ \o out.call]
            /\ IF out.exc = "none"
               THEN /\ listing_data' = SetLocal(listing_data, r, out.value)
                    /\ Goto(r, "uploading")
               ELSE /\ UNCHANGED listing_data
                    /\ Fail(r, "Extracting", ExceptHandler(out))
    /\ UNCHANGED <<app_vars, globals, file, contents, image_id, sku, offer_id>>

\* lines 377-379
Upload(r) ==
    /\ pc[r] = "uploading"
    /\ \E resp \in UploadResponses :
        LET out == upload_image_to_ebay(EBAY_TOKEN, contents[r], file[r].filename, resp)
        IN  /\ calls' = [calls EXCEPT ![r] = @ \o out.call]
            /\ IF out.exc # "none"
               THEN /\ UNCHANGED image_id
                    /\ Fail(r, "Uploading", ExceptHandler(out))
               ELSE /\ image_id' = SetLocal(image_id, r, out.value)
                    /\ IF PyNot(out.value)
                       THEN Fail(r, "Uploading", ExceptHandler(
                                Raise("HTTPException",
                                      HTTPExceptionMsg(500,
                                        "eBay Image Upload Failed. Check token scope."),
                                      500, NoneVal, <<>>)))
                       ELSE Goto(r, "writing_item")
    /\ UNCHANGED <<app_vars, globals, file, contents, listing_data, sku, offer_id>>

\* lines 382-384
CreateItem(r) ==
    /\ pc[r] = "writing_item"
    /\ \E uuid4 \in Uuids, resp \in InventoryResponses :
        LET out == create_inventory_item(EBAY_TOKEN, listing_data[r], image_id[r],
                                         uuid4, resp)
        IN  /\ calls' = [calls EXCEPT ![r] = @ \o out.call]
            /\ IF out.exc # "none"
               THEN /\ UNCHANGED sku
                    /\ Fail(r, "WritingItem", ExceptHandler(out))
               ELSE /\ sku' = SetLocal(sku, r, out.value)
                    /\ IF PyNot(out.value)
                       THEN Fail(r, "WritingItem", ExceptHandler(
                                Raise("HTTPException",
                                      HTTPExceptionMsg(500,
                                        "eBay Inventory Item Creation Failed."),
                                      500, NoneVal, <<>>)))
                       ELSE Goto(r, "writing_offer")
    /\ UNCHANGED <<app_vars, globals, file, contents, listing_data, image_id, offer_id>>

\* lines 387-389
CreateOffer(r) ==
    /\ pc[r] = "writing_offer"
    /\ \E resp \in OfferResponses :
        LET out == create_offer(EBAY_TOKEN, POLICY_IDS, sku[r], listing_data[r], resp)
        IN  /\ calls' = [calls EXCEPT ![r] = @ \o out.call]
            /\ IF out.exc # "none"
               THEN /\ UNCHANGED offer_id
                    /\ Fail(r, "WritingOffer", ExceptHandler(out))
               ELSE /\ offer_id' = SetLocal(offer_id, r, out.value)
                    /\ IF PyNot(out.value)
                       THEN Fail(r, "WritingOffer", ExceptHandler(
                                Raise("HTTPException",
                                      HTTPExceptionMsg(500,
                                        "eBay Offer Creation Failed. Check Policy IDs."),
                                      500, NoneVal, <<>>)))
                       ELSE Goto(r, "responding")
    /\ UNCHANGED <<app_vars, globals, file, contents, listing_data, image_id, sku>>

\* the dict built at lines 392-399
SuccessResponse(d, s, o) ==
    [status |-> "success",
     title |-> d["title"],
     suggested_price |-> d["suggested_price"],
     currency |-> d["currency"],
     sku |-> s,
     offer_id |-> o]

\* lines 392-399: build the success response
Respond(r) ==
    /\ pc[r] = "responding"
    /\ LET missing == FirstMissing(listing_data[r],
                                   <<"title", "suggested_price", "currency">>)
       IN  IF missing # NoneVal
           THEN Fail(r, "Responding", ExceptHandler(
                    Raise("Exception", KeyErrorMsg(missing), 0, NoneVal, <<>>)))
           ELSE /\ pc' = [pc EXCEPT ![r] = "done"]
                /\ result' = [result EXCEPT ![r] =
                                SuccessResponse(listing_data[r], sku[r], offer_id[r])]
                /\ UNCHANGED stage
    /\ UNCHANGED <<app_vars, globals, file, contents, listing_data, image_id, sku, offer_id, calls>>

Next ==
    \E r \in Runs :
        \/ Preflight(r)
        \/ ReadImage(r)
        \/ Extract(r)
        \/ Upload(r)
        \/ CreateItem(r)
        \/ CreateOffer(r)
        \/ Respond(r)

Spec == Init /\ [][Next]_vars

\* ------------------------------------------------- the Streamlit variant
pipeline_vars == <<GEMINI_KEY, EBAY_TOKEN, POLICY_IDS, pc, file, contents,
                   listing_data, image_id, sku, offer_id, result, stage, calls>>

\* photographs the camera widget can hold
Photos == {"photo-1", "photo-2"}

\* app.py lines 16-21: st.secrets lacks a key and the script stops
SecretsMissing == GEMINI_KEY = NoneVal \/ EBAY_TOKEN = NoneVal

\* app.py lines 29-49
analyze_image(image, outcome) ==
    IF ~outcome.ok
    THEN Raise("Exception", outcome.error, 0, NoDraft, <<>>)
    ELSE LET parsed == JsonLoads(CleanText(outcome.text))
         IN  IF parsed.ok
             THEN Return(parsed.value, <<>>)
             ELSE Raise("Exception", parsed.error, 0, NoDraft, <<>>)

\* app.py lines 51-82: the fileId, or None after any exception
app_upload_image_to_ebay(image_bytes, image_name, resp) ==
    IF RaisesForStatus(resp.status)
    THEN NoneVal
    ELSE LET parsed == JsonLoads(resp.text)
         IN  IF parsed.ok THEN Get(parsed.value, "fileId", NoneVal) ELSE NoneVal

\* app.py line 115: the file name built from the stored title
UploadName(ss) ==
    "listing_"
    \o (IF ss.listing_data # NoDraft /\ "title" \in DOMAIN ss.listing_data
        THEN Join(ss.listing_data["title"]) ELSE "item")
    \o ".jpg"

\* app.py line 124: both entries are in st.session_state
PanelShown(ss) == ss.listing_data # NoDraft /\ ss.image_id # NoneVal

\* a script run caused by the camera widget: a new photo or none
TakePicture ==
    /\ ~SecretsMissing
    /\ \E p \in Photos \cup {NoneVal} :
        /\ p # picture
        /\ picture' = p
    /\ panel' = PanelShown(session_state)
    /\ notice' = NoneVal
    /\ UNCHANGED <<pipeline_vars, session_state, presses, origin>>

\* app.py lines 102-120, then 124-139: a script run with the Generate button pressed
PressGenerate ==
    /\ ~SecretsMissing
    /\ picture # NoneVal
    /\ presses < MaxPresses
    /\ presses' = presses + 1
    /\ \E outcome \in ModelOutcomes, resp \in UploadResponses :
        LET analysed == analyze_image(picture, outcome)
            stored == [session_state EXCEPT !.listing_data = analysed.value]
            uploaded == app_upload_image_to_ebay(picture, UploadName(stored), resp)
        IN  IF analysed.exc # "none"
            THEN /\ notice' = "AI Analysis Failed"
                 /\ panel' = FALSE
                 /\ UNCHANGED <<session_state, origin>>
            ELSE IF Truthy(uploaded)
            THEN /\ session_state' = [stored EXCEPT !.image_id = uploaded]
                 /\ origin' = [listing_data |-> presses', image_id |-> presses']
                 /\ notice' = NoneVal
                 /\ panel' = PanelShown(session_state')
            ELSE /\ session_state' = stored
                 /\ origin' = [origin EXCEPT !.listing_data = presses']
                 /\ notice' = "Image upload failed. Cannot proceed."
                 /\ panel' = FALSE
    /\ UNCHANGED <<pipeline_vars, picture>>

\* app.py lines 137-138: a script run with the GO button pressed
PressGo ==
    /\ ~SecretsMissing
    /\ panel
    /\ panel' = PanelShown(session_state)
    /\ notice' = "Next step coming soon..."
    /\ UNCHANGED <<pipeline_vars, picture, session_state, presses, origin>>

NextApp == TakePicture \/ PressGenerate \/ PressGo

SpecApp == Init /\ [][NextApp]_vars

\* ------------------------------------------------------------ observations
Stages == <<"extract", "upload", "inventory_item", "offer">>

CallIdx(r, api) == { i \in 1..Len(calls[r]) : calls[r][i].api = api }
Called(r, api) == CallIdx(r, api) # {}

\* the fileId of an upload response, NoneVal when the body has none
FileIdOf(text) ==
    LET parsed == JsonLoads(text)
    IN  IF parsed.ok /\ "fileId" \in DOMAIN parsed.value
        THEN parsed.value["fileId"] ELSE NoneVal

\* the offerId of an offer response, NoneVal when the body has none
OfferIdOf(text) ==
    LET parsed == JsonLoads(text)
    IN  IF parsed.ok /\ "offerId" \in DOMAIN parsed.value
        THEN parsed.value["offerId"] ELSE NoneVal

\* the remote call c ended the way its stage needs to go on
Succeeded(c) ==
    CASE c.api = "extract" -> c.status = 200 /\ JsonLoads(CleanText(c.response)).ok
      [] c.api = "upload" -> c.status \in 200..299 /\ FileIdOf(c.response) \notin {NoneVal, ""}
      [] c.api = "inventory_item" -> c.status = 204
      [] c.api = "offer" -> c.status = 201 /\ OfferIdOf(c.response) \notin {NoneVal, ""}

Ended(r) == pc[r] \in {"done", "failed"}

\* ------------------------------------------------------------------ claims
\* C1: the remote calls of a run are issued in the order extract, upload,
\* inventory item, offer, each only after the call before it succeeded, and
\* a run that has failed issues no further remote call.
C1_CallsInOrder ==
    \A r \in Runs :
        /\ Len(calls[r]) <= Len(Stages)
        /\ \A i \in 1..Len(calls[r]) :
            /\ calls[r][i].api = Stages[i]
            /\ i > 1 => Succeeded(calls[r][i - 1])

C1_NoCallAfterFailure ==
    \A r \in Runs : pc[r] = "failed" => calls'[r] = calls[r]

C1_StagesOnlyAfterSuccess ==
    []C1_CallsInOrder /\ [][C1_NoCallAfterFailure]_vars

\* a run failed in the upload stage and issued neither inventory nor offer
\* call, while another run issued all four calls
C1_Witness ==
    \E r1, r2 \in Runs :
        /\ pc[r1] = "failed" /\ stage[r1] = "Uploading"
        /\ Called(r1, "upload") /\ ~Called(r1, "inventory_item") /\ ~Called(r1, "offer")
        /\ Len(calls[r2]) = 4

\* C2: every offer call carries the SKU of an earlier inventory-item PUT of
\* the same run that answered 204, the SKU of that PUT's URL and the one
\* create_inventory_item returned.
C2_OfferSkuWasCreated ==
    \A r \in Runs : \A i \in CallIdx(r, "offer") :
        /\ calls[r][i].payload.sku = sku[r]
        /\ \E j \in CallIdx(r, "inventory_item") :
            /\ j < i
            /\ calls[r][j].status = 204
            /\ calls[r][j].url =
                  EBAY_SANDBOX_URL \o "/inventory_item/" \o calls[r][i].payload.sku

C2_Witness ==
    \E r1, r2 \in Runs :
        /\ Called(r1, "offer") /\ Called(r2, "offer")
        /\ sku[r1] = "SKU-AB12CD31" /\ sku[r2] = "SKU-AB12CD32"

\* keys the extraction response has to carry
RequiredKeys ==
    {"title", "description", "brand", "condition", "category_keyword",
     "suggested_price", "currency"}

\* a response with prose around the JSON object, or whose object lacks a key
Malformed(text) ==
    \/ \E i \in 1..Len(text) : text[i] = Prose
    \/ \E i \in 1..Len(text) :
        text[i].t = "object" /\ ~(RequiredKeys \subseteq DOMAIN text[i].v)

\* C3: a run whose extraction response is malformed issues no upload call
\* and ends as a failure of the Extracting stage.
C3_MalformedStopsAtExtracting ==
    \A r \in Runs : \A i \in CallIdx(r, "extract") :
        Malformed(calls[r][i].response) =>
            /\ ~Called(r, "upload")
            /\ pc[r] \in {"failed", "uploading"}
            /\ pc[r] = "failed" => stage[r] = "Extracting"

\* C4: with a credential missing, every invocation that has been handled
\* failed before the try block with the missing-keys error and no remote call
\* was issued.
C4_MissingKeyFailsPreflight ==
    (~Truthy(GEMINI_KEY) \/ ~Truthy(EBAY_TOKEN)) =>
        \A r \in Runs :
            /\ calls[r] = <<>>
            /\ pc[r] # "start" =>
                /\ pc[r] = "failed" /\ stage[r] = "Start"
                /\ result[r] = HTTPExceptionResult(500,
                      "API Keys are missing. Check Render environment variables.")

C4_Witness ==
    /\ Truthy(GEMINI_KEY) /\ ~Truthy(EBAY_TOKEN)
    /\ \A r \in Runs : pc[r] = "failed"

\* C5: after an inventory-item PUT that answered anything but 204 the run has
\* no SKU, has failed in the inventory stage and issues no offer call.
C5_Only204IsSuccess ==
    \A r \in Runs : \A i \in CallIdx(r, "inventory_item") :
        calls[r][i].status # 204 =>
            /\ sku[r] = NoneVal
            /\ pc[r] = "failed" /\ stage[r] = "WritingItem"
            /\ ~Called(r, "offer")

C5_Witness ==
    \E r \in Runs : \E i \in CallIdx(r, "inventory_item") :
        calls[r][i].status = 200 /\ pc[r] = "failed"

\* C6: a draft handed to the later stages has every key, a title of at most
\* 80 characters and a condition of the enumeration.
C6_DraftIsValid ==
    \A r \in Runs :
        listing_data[r] # NoDraft =>
            /\ RequiredKeys \subseteq DOMAIN listing_data[r]
            /\ Len(listing_data[r]["title"]) <= MaxTitleLen
            /\ listing_data[r]["condition"] \in Conditions

\* C7: the imageUrls of every inventory-item PUT is the one fileId an earlier
\* upload call of the same run returned with a 2xx status, and that upload
\* sent the bytes of the file being listed.
C7_ImageIsUploadedReference ==
    \A r \in Runs : \A i \in CallIdx(r, "inventory_item") :
        \E j \in CallIdx(r, "upload") :
            /\ j < i
            /\ Succeeded(calls[r][j])
            /\ calls[r][j].payload.bytes = file[r].bytes
            /\ calls[r][i].payload.product.imageUrls = <<FileIdOf(calls[r][j].response)>>

C7_Witness ==
    \E r1, r2 \in Runs :
        /\ r1 # r2
        /\ Called(r1, "inventory_item") /\ Called(r2, "inventory_item")
        /\ image_id[r1] # image_id[r2]

\* C8: after a 2xx upload response without a usable fileId the run has failed
\* in the upload stage and issues neither inventory-item nor offer call.
C8_NoFileIdFailsUpload ==
    \A r \in Runs : \A i \in CallIdx(r, "upload") :
        (calls[r][i].status \in 200..299 /\ FileIdOf(calls[r][i].response) \in {NoneVal, ""}) =>
            /\ pc[r] = "failed" /\ stage[r] = "Uploading"
            /\ ~Called(r, "inventory_item") /\ ~Called(r, "offer")

C8_Witness ==
    \E r1, r2 \in Runs : \E i \in CallIdx(r1, "upload"), j \in CallIdx(r2, "upload") :
        /\ calls[r1][i].status = 200 /\ calls[r1][i].response = <<Obj([fileId |-> ""])>>
        /\ calls[r2][j].status = 200 /\ calls[r2][j].response = <<Obj([warnings |-> "none"])>>

\* C9: two runs that failed in different stages (Extracting, Uploading,
\* WritingItem, WritingOffer) got different failure responses.
C9_FailureTellsStage ==
    \A r1, r2 \in Runs :
        ( /\ pc[r1] = "failed" /\ pc[r2] = "failed"
          /\ stage[r1] \in {"Extracting", "Uploading", "WritingItem", "WritingOffer"}
          /\ stage[r2] \in {"Extracting", "Uploading", "WritingItem", "WritingOffer"}
          /\ stage[r1] # stage[r2] )
        => result[r1] # result[r2]

\* C10: a run whose four remote calls all succeeded ends with the success
\* response made of its SKU, the offerId of the offer call and the title,
\* price and currency of its draft.
C10_SuccessResult ==
    \A r \in Runs :
        ( /\ Ended(r)
          /\ Len(calls[r]) = 4
          /\ \A i \in 1..4 : Succeeded(calls[r][i]) )
        => /\ pc[r] = "done"
           /\ result[r].sku = sku[r]
           /\ result[r].offer_id = offer_id[r]
           /\ result[r].title = listing_data[r]["title"]
           /\ result[r].suggested_price = listing_data[r]["suggested_price"]
           /\ result[r].currency = listing_data[r]["currency"]

\* the draft of run r lacks key k
DraftLacks(r, k) == listing_data[r] # NoDraft /\ k \notin DOMAIN listing_data[r]

C12_OfferSuccessNeeds201 ==
    \A r \in Runs :
        (Truthy(offer_id[r]) \/ pc[r] \in {"responding", "done"}) =>
            \E i \in CallIdx(r, "offer") :
                /\ calls[r][i].status = 201
                /\ OfferIdOf(calls[r][i].response) = offer_id[r]
                /\ Truthy(offer_id[r])
                /\ pc[r] = "done" => result[r].offer_id = offer_id[r]

\* one run ended with the success response, another got 200 with an offerId
\* from the offer POST and failed
C12_Witness ==
    \E r1, r2 \in Runs :
        /\ pc[r1] = "done"
        /\ pc[r2] = "failed" /\ stage[r2] = "WritingOffer"
        /\ \E i \in CallIdx(r2, "offer") :
            calls[r2][i].status = 200 /\ Truthy(OfferIdOf(calls[r2][i].response))

\* C13: the offer carries the price and currency of the draft, 25.00 when
\* the draft has no suggested_price and USD when it has no currency.
C13_PriceAndCurrencyFallbacks ==
    \A r \in Runs : \A i \in CallIdx(r, "offer") :
        LET price == calls[r][i].payload.pricingSummary.price
        IN  /\ price.value = IF DraftLacks(r, "suggested_price") THEN 2500
                             ELSE listing_data[r]["suggested_price"]
            /\ price.currency = IF DraftLacks(r, "currency") THEN "USD"
                                ELSE listing_data[r]["currency"]

\* one run offered a draft without price, the other a draft without currency
C13_Witness ==
    \E r1, r2 \in Runs :
        /\ DraftLacks(r1, "suggested_price") /\ Called(r1, "offer")
        /\ DraftLacks(r2, "currency") /\ Called(r2, "offer")

\* a character of a condition other than the separator
NotSeparator(c) == c # "_"

\* C14: the condition field of every inventory-item payload is the draft's
\* condition without its underscores, in particular USEDEXCELLENT, NEWOTHER
\* and USEDGOOD for the three enumerated values, and the Condition aspect is
\* the draft's condition unchanged.
C14_ConditionSeparatorsRemoved ==
    \A r \in Runs : \A i \in CallIdx(r, "inventory_item") :
        LET given == listing_data[r]["condition"]
            sent == calls[r][i].payload.condition
        IN  /\ sent = SelectSeq(given, NotSeparator)
            /\ given = <<"U","S","E","D","_","E","X","C","E","L","L","E","N","T">>
                => sent = <<"U","S","E","D","E","X","C","E","L","L","E","N","T">>
            /\ given = <<"N","E","W","_","O","T","H","E","R">>
                => sent = <<"N","E","W","O","T","H","E","R">>
            /\ given = <<"U","S","E","D","_","G","O","O","D">>
                => sent = <<"U","S","E","D","G","O","O","D">>
            /\ calls[r][i].payload.product.aspects.Condition = <<given>>

\* inventory-item calls were issued for all three enumerated conditions
C14_Witness ==
    \E r1, r2 \in Runs :
        /\ Called(r1, "inventory_item") /\ Called(r2, "inventory_item")
        /\ listing_data[r1]["condition"] = <<"N","E","W","_","O","T","H","E","R">>
        /\ listing_data[r2]["condition"] = <<"U","S","E","D","_","G","O","O","D">>

\* how far a position is along upload_and_analyze
Rank(label) ==
    CASE label = "start" -> 0
      [] label = "read" -> 1
      [] label = "extracting" -> 2
      [] label = "uploading" -> 3
      [] label = "writing_item" -> 4
      [] label = "writing_offer" -> 5
      [] label = "responding" -> 6
      [] label \in {"done", "failed"} -> 7

C15_AtMostOnce ==
    \A r \in Runs : \A s \in 1..Len(Stages) :
        /\ Cardinality(CallIdx(r, Stages[s])) <= 1
        /\ pc[r] = "done" => Cardinality(CallIdx(r, Stages[s])) = 1

C15_Forward ==
    \A r \in Runs :
        /\ pc'[r] # pc[r] => Rank(pc'[r]) > Rank(pc[r])
        /\ calls'[r] # calls[r] => pc'[r] # pc[r]

\* C15: in one invocation every stage's remote call is issued at most once,
\* exactly once on a run that ends in success, and the position only moves
\* forward: no stage is entered again or retried.
C15_EachStageOnce ==
    []C15_AtMostOnce /\ [][C15_Forward]_vars

\* one run ended in success, another failed in its offer call
C15_Witness ==
    \E r1, r2 \in Runs :
        /\ pc[r1] = "done"
        /\ pc[r2] = "failed" /\ stage[r2] = "WritingOffer" /\ Len(calls[r2]) = 4

\* the remote object a call created as the log shows it, NoneVal when none
CreatedUrl(c) ==
    CASE c.api = "upload" /\ c.status \in 200..299 ->
            EBAY_SANDBOX_URL \o "/file/" \o FileIdOf(c.response)
      [] c.api = "inventory_item" /\ c.status \in 200..299 -> c.url
      [] c.api = "offer" /\ c.status = 201 ->
            EBAY_SANDBOX_URL \o "/offer/" \o OfferIdOf(c.response)
      [] OTHER -> NoneVal

\* the objects a log created and no later call of the log deleted or rewrote
IntactObjects(log) ==
    { CreatedUrl(log[i]) : i \in { k \in 1..Len(log) :
        /\ CreatedUrl(log[k]) # NoneVal
        /\ \A j \in (k + 1)..Len(log) :
            ~(log[j].method \in {"DELETE", "PUT", "PATCH"} /\ log[j].url = CreatedUrl(log[k])) } }

C16_ObjectsOnlyGrow ==
    \A r \in Runs :
        /\ Len(calls'[r]) >= Len(calls[r])
        /\ SubSeq(calls'[r], 1, Len(calls[r])) = calls[r]
        /\ IntactObjects(calls[r]) \subseteq IntactObjects(calls'[r])
        /\ \A i \in 1..Len(calls'[r]) : calls'[r][i].method # "DELETE"

\* C16: no step of a run deletes or rewrites a media object, inventory item
\* or offer the run created before; the objects a run created only grow.
C16_NoCompensation ==
    [][C16_ObjectsOnlyGrow]_vars

\* a run failed in the inventory stage after its PUT was refused and another
\* in the offer stage, both with the objects created before still there
C16_Witness ==
    \E r1, r2 \in Runs :
        /\ pc[r1] = "failed" /\ stage[r1] = "WritingItem" /\ Len(calls[r1]) = 3
        /\ Cardinality(IntactObjects(calls[r1])) = 1
        /\ pc[r2] = "failed" /\ stage[r2] = "WritingOffer"
        /\ Cardinality(IntactObjects(calls[r2])) = 2

\* C17: a run that failed because its upload, inventory-item or offer call
\* answered with an error status reports that status and the body the remote
\* sent with it.
C17_FailureCarriesStatusAndBody ==
    \A r \in Runs : \A i \in 1..Len(calls[r]) :
        ( /\ calls[r][i].api \in {"upload", "inventory_item", "offer"}
          /\ calls[r][i].status >= 400
          /\ calls[r][i].response # <<>> )
        => /\ pc[r] = "failed"
           /\ result[r].status_code = calls[r][i].status
           /\ result[r].detail.response = calls[r][i].response

\* what the remote services answered to run r itself
OwnDraft(r) == JsonLoads(CleanText(calls[r][1].response)).value
OwnFileId(r) == FileIdOf(calls[r][2].response)
OwnSkuUrl(r) == calls[r][3].url

C18_OwnDataOnly ==
    /\ POLICY_IDS = POLICY_IDS_DEFAULT
    /\ \A r \in Runs : \A i \in 1..Len(calls[r]) :
        LET c == calls[r][i]
        IN  /\ c.api = "extract" => c.payload.image = file[r].bytes
            /\ c.api = "upload" => c.payload.bytes = file[r].bytes
            /\ c.api = "inventory_item" =>
                  c.payload = InventoryPayload(OwnDraft(r), OwnFileId(r))
            /\ c.api = "offer" =>
                  /\ OwnSkuUrl(r) = EBAY_SANDBOX_URL \o "/inventory_item/" \o c.payload.sku
                  /\ c.payload = OfferPayload(POLICY_IDS_DEFAULT, c.payload.sku, OwnDraft(r))

C18_ConfigReadOnly ==
    UNCHANGED <<GEMINI_KEY, EBAY_TOKEN, POLICY_IDS>>

\* C18: however two invocations interleave, the payloads of each are built
\* from the draft, the fileId and the SKU of that invocation's own calls,
\* and no step writes the credentials or the policy identifiers.
C18_RunsAreIsolated ==
    []C18_OwnDataOnly /\ [][C18_ConfigReadOnly]_vars

\* both runs posted an offer, with different drafts, fileIds and SKUs
C18_Witness ==
    \E r1, r2 \in Runs :
        /\ Called(r1, "offer") /\ Called(r2, "offer")
        /\ listing_data[r1] # listing_data[r2]
        /\ image_id[r1] # image_id[r2]
        /\ sku[r1] # sku[r2]

\* C19: a run whose offer POST answered 201 with an offerId ends with the
\* success response, never in failure.
C19_OfferCreatedMeansDone ==
    \A r \in Runs :
        (Ended(r) /\ \E i \in CallIdx(r, "offer") : Succeeded(calls[r][i]))
            => pc[r] = "done"

\* C20: whenever the panel is shown, the stored image_id and the stored
\* listing_data were written by the same Generate press.
C20_PanelShowsOnePress ==
    panel => origin.listing_data = origin.image_id

====
